---------------------------- MODULE Spec2Model ----------------------------
(***************************************************************************)
(* A model of dkm (src/dkm/dkm.hpp): k-means++ seeding, Lloyd's loop and   *)
(* the clustering_parameters object.                                       *)
(*                                                                         *)
(* Numbers.  The coordinate type T is modelled as exact arithmetic on the  *)
(* grid of multiples of 1/Scale: a value v of the program is the integer   *)
(* v * Scale.  Scale is a common multiple of every cluster size that can   *)
(* occur, so the division of calculate_means is exact on the grid.  A      *)
(* squared distance is in units of 1/Scale^2.  std::sqrt is kept symbolic: *)
(* sqrt(x) is the record [sq |-> x], compared through GreaterThan.         *)
(*                                                                         *)
(* Indices.  Vectors are sequences; an index of the program (from 0) is    *)
(* kept as the program's value, and At(v, i) reads v[i].                   *)
(***************************************************************************)
EXTENDS Integers, Sequences, FiniteSets, TLC

\* Bounds of the model.
MaxPoints == 3
MaxK == 2
MaxIter == 2

\* An optional value: absent, or v.
None == {}
Some(v) == {v}

Min(a, b) == IF a < b THEN a ELSE b
Max(a, b) == IF a < b THEN b ELSE a

RECURSIVE Gcd(_, _)
Gcd(a, b) == IF b = 0 THEN a ELSE Gcd(b, a % b)

RECURSIVE LcmUpTo(_)
LcmUpTo(n) == IF n <= 1 THEN 1 ELSE LET l == LcmUpTo(n - 1) IN (l * n) \div Gcd(l, n)

\* std::array<T, N> with N = 2: the coordinate indices.
Dim == {1, 2}

\* The dataset of the concrete scenario, in program units.
ScenarioRaw == << <<0, 0>>, <<0, 1>>, <<10, 0>>, <<10, 1>> >>

\* The longest dataset of the model.
LongestData == Max(MaxPoints, Len(ScenarioRaw))

\* One program unit of T on the grid.
Scale == LcmUpTo(LongestData)

\* The point (x, y) of the program.
Pt(x, y) == <<x * Scale, y * Scale>>

\* T(): the value-initialised array.
ZeroPoint == <<0, 0>>

At(v, i) == v[i + 1]

(***************************************************************************)
(* details::                                                               *)
(***************************************************************************)
distance_squared(point_a, point_b) ==
    LET delta(i) == point_a[i] - point_b[i]
    IN  (delta(1) * delta(1)) + (delta(2) * delta(2))

sqrt(x) == [sq |-> x]

\* d > m for a d = sqrt(x) (d >= 0) and a grid value m.
GreaterThan(d, m) == IF m < 0 THEN TRUE ELSE d.sq > m * m

distance(point_a, point_b) == sqrt(distance_squared(point_a, point_b))

RECURSIVE closest_scan(_, _, _, _)
closest_scan(d, means, i, closest) ==
    IF i >= Len(means) THEN closest
    ELSE LET dist == distance_squared(d, At(means, i))
         IN  closest_scan(d, means, i + 1, IF dist < closest THEN dist ELSE closest)

closest_distance(means, data) ==
    [n \in 1..Len(data) |->
        closest_scan(data[n], means, 0, distance_squared(data[n], At(means, 0)))]

RECURSIVE closest_mean_loop(_, _, _, _, _)
closest_mean_loop(point, means, i, smallest_distance, index) ==
    IF i >= Len(means) THEN index
    ELSE LET dist == distance_squared(point, At(means, i))
         IN  IF dist < smallest_distance
             THEN closest_mean_loop(point, means, i + 1, dist, i)
             ELSE closest_mean_loop(point, means, i + 1, smallest_distance, index)

RECURSIVE closest_mean_last_loop(_, _, _, _, _)
closest_mean_last_loop(point, means, i, smallest_distance, index) ==
    IF i >= Len(means) THEN index
    ELSE LET dist == distance_squared(point, At(means, i))
         IN  IF dist <= smallest_distance
             THEN closest_mean_last_loop(point, means, i + 1, dist, i)
             ELSE closest_mean_last_loop(point, means, i + 1, smallest_distance, index)

\* closest_mean with <= for <: the last of several equally near means wins.
closest_mean_last(point, means) ==
    closest_mean_last_loop(point, means, 1, distance_squared(point, At(means, 0)), 0)

\* assert(!means.empty()) is the caller's obligation: every call below passes
\* at least one mean.
closest_mean(point, means) ==
    closest_mean_loop(point, means, 1, distance_squared(point, At(means, 0)), 0)

RECURSIVE push_clusters(_, _, _, _)
push_clusters(data, means, n, clusters) ==
    IF n > Len(data) THEN clusters
    ELSE push_clusters(data, means, n + 1, Append(clusters, closest_mean(data[n], means)))

\* calculate_clusters that labels every point as the first point is labelled.
calculate_clusters_first(data, means) ==
    [n \in 1..Len(data) |-> closest_mean(data[1], means)]

\* calculate_clusters that stops one point early.
calculate_clusters_short(data, means) ==
    IF Len(data) = 0 THEN <<>>
    ELSE push_clusters(SubSeq(data, 1, Len(data) - 1), means, 1, <<>>)

calculate_clusters(data, means) == push_clusters(data, means, 1, <<>>)

\* The first loop of calculate_means: the sums and the counts.
RECURSIVE accumulate(_, _, _, _, _)
accumulate(data, clusters, i, means, count) ==
    IF i >= Min(Len(clusters), Len(data)) THEN [means |-> means, count |-> count]
    ELSE LET c == At(clusters, i) + 1
             p == At(data, i)
         IN  accumulate(data, clusters, i + 1,
                        [means EXCEPT ![c] = [j \in Dim |-> means[c][j] + p[j]]],
                        [count EXCEPT ![c] = count[c] + 1])

\* calculate_means without the fallback to old_means: an empty cluster keeps
\* the value-initialised mean.
calculate_means_nofallback(data, clusters, old_means, k) ==
    LET acc == accumulate(data, clusters, 0, [c \in 1..k |-> ZeroPoint], [c \in 1..k |-> 0])
    IN  [c \in 1..k |->
            IF acc.count[c] = 0 THEN ZeroPoint
            ELSE [j \in Dim |-> acc.means[c][j] \div acc.count[c]]]

\* calculate_means without the division by the count: a cluster's mean is
\* the sum of its points.
calculate_means_undivided(data, clusters, old_means, k) ==
    LET acc == accumulate(data, clusters, 0, [c \in 1..k |-> ZeroPoint], [c \in 1..k |-> 0])
    IN  [c \in 1..k |-> IF acc.count[c] = 0 THEN old_means[c] ELSE acc.means[c]]

calculate_means(data, clusters, old_means, k) ==
    LET acc == accumulate(data, clusters, 0, [c \in 1..k |-> ZeroPoint], [c \in 1..k |-> 0])
    IN  [c \in 1..k |->
            IF acc.count[c] = 0 THEN old_means[c]
            ELSE [j \in Dim |-> acc.means[c][j] \div acc.count[c]]]

\* assert(old_means.size() == means.size()) holds at every call: both have k
\* entries.
deltas(old_means, means) ==
    [i \in 1..Len(means) |-> distance(means[i], old_means[i])]

RECURSIVE below_limit_from(_, _, _)
below_limit_from(ds, min_delta, i) ==
    IF i > Len(ds) THEN TRUE
    ELSE IF GreaterThan(ds[i], min_delta) THEN FALSE
    ELSE below_limit_from(ds, min_delta, i + 1)

\* deltas_below_limit that looks at the first delta only.
deltas_below_limit_first(ds, min_delta) ==
    IF Len(ds) = 0 THEN TRUE ELSE ~GreaterThan(ds[1], min_delta)

deltas_below_limit(ds, min_delta) == below_limit_from(ds, min_delta, 1)


(***************************************************************************)
(* The random draws of random_plusplus.  The engine is a linear            *)
(* congruential engine over uint64_t seeded with `seed`: its output is a   *)
(* function of the seed alone.  The model keeps that function abstract: a  *)
(* stream is what one seeded engine hands to the successive draws, each    *)
(* output reduced to the rank of the outcome it selects among the         *)
(* outcomes of the draw.                                                   *)
(***************************************************************************)
Streams(size, k) == IF size > 0 /\ k > 0 THEN [1..k -> 0..(size - 1)] ELSE {<<>>}

\* std::uniform_int_distribution<input_size_t>(0, size - 1): every index.
uniform_int_distribution(size, r) == r % size

\* The indices a std::discrete_distribution over `weights` returns: those of
\* positive weight.  With no positive weight its precondition (0 < sum) is
\* broken and any index may come out.
Support(weights) ==
    LET pos == {i \in 0..(Len(weights) - 1) : At(weights, i) > 0}
    IN  IF pos = {} THEN 0..(Len(weights) - 1) ELSE pos

RECURSIVE NthOf(_, _)
NthOf(S, n) ==
    LET m == CHOOSE x \in S : \A y \in S : x <= y
    IN  IF n = 0 THEN m ELSE NthOf(S \ {m}, n - 1)

discrete_distribution(weights, r) ==
    LET S == Support(weights) IN NthOf(S, r % Cardinality(S))

RECURSIVE plusplus_loop(_, _, _, _, _)
plusplus_loop(data, k, stream, count, means) ==
    IF count >= k THEN means
    ELSE LET distances == closest_distance(means, data)
             pick == discrete_distribution(distances, stream[count + 1])
         IN  plusplus_loop(data, k, stream, count + 1, Append(means, At(data, pick)))

AssertionFailure == [failed |-> TRUE, means |-> <<>>]

\* random_plusplus without assert(data.size() > 0): on an empty dataset the
\* reads past the end hand back some point for every mean.
random_plusplus_unchecked(data, k, stream) ==
    IF ~(k > 0) THEN AssertionFailure
    ELSE IF Len(data) = 0 THEN [failed |-> FALSE, means |-> [c \in 1..k |-> ZeroPoint]]
    ELSE [failed |-> FALSE,
          means  |-> plusplus_loop(data, k, stream, 1,
                        <<At(data, uniform_int_distribution(Len(data), stream[1]))>>)]

\* random_plusplus(data, k, seed), `stream` being what rand_engine(seed) hands
\* out.  A failed assert ends the call before means is touched.
random_plusplus(data, k, stream) ==
    IF ~(k > 0) THEN AssertionFailure
    ELSE IF ~(Len(data) > 0) THEN AssertionFailure
    ELSE [failed |-> FALSE,
          means  |-> plusplus_loop(data, k, stream, 1,
                        <<At(data, uniform_int_distribution(Len(data), stream[1]))>>)]

(***************************************************************************)
(* clustering_parameters                                                   *)
(***************************************************************************)
clustering_parameters(k) ==
    [_k |-> k,
     _has_max_iter |-> FALSE, _max_iter |-> 0,
     _has_min_delta |-> FALSE, _min_delta |-> 0,
     _has_rand_seed |-> FALSE, _rand_seed |-> 0]

\* set_max_iteration that stores the value and leaves the flag alone.
set_max_iteration_noflag(p, max_iter) == [p EXCEPT !._max_iter = max_iter]

set_max_iteration(p, max_iter) ==
    [p EXCEPT !._max_iter = max_iter, !._has_max_iter = TRUE]

\* set_min_delta that raises the flag of the maximum iteration count.
set_min_delta_wrongflag(p, min_delta) ==
    [p EXCEPT !._min_delta = min_delta, !._has_max_iter = TRUE]

set_min_delta(p, min_delta) ==
    [p EXCEPT !._min_delta = min_delta, !._has_min_delta = TRUE]

\* set_random_seed that stores the value and leaves the flag alone.
set_random_seed_noflag(p, rand_seed) == [p EXCEPT !._rand_seed = rand_seed]

set_random_seed(p, rand_seed) ==
    [p EXCEPT !._rand_seed = rand_seed, !._has_rand_seed = TRUE]

has_max_iteration(p) == p._has_max_iter
has_min_delta(p) == p._has_min_delta
has_random_seed(p) == p._has_rand_seed
get_k(p) == p._k
get_max_iteration(p) == p._max_iter
get_min_delta(p) == p._min_delta
get_random_seed(p) == p._rand_seed


(***************************************************************************)
(* kmeans_lloyd: one run.  A run is the record of its position (`state`),  *)
(* its locals and the means random_plusplus gave back (`seeds`).  The      *)
(* function's body is not part of dkm.hpp as given; it follows section 4.6 *)
(* of the specification: SEEDING, then ITERATING (assign, update, test)    *)
(* until CONVERGED or MAX_ITERATIONS_REACHED.                              *)
(***************************************************************************)
NotStarted ==
    [state |-> "NOT_STARTED", seeds |-> <<>>, means |-> <<>>, old_means |-> <<>>,
     clusters |-> <<>>, count |-> 0]

\* The seed of a run: the configured one, or else what std::random_device gives.
choose_seed(p, rand_device) ==
    IF has_random_seed(p) THEN get_random_seed(p) ELSE rand_device

\* SEEDING: random_plusplus with an engine on the run's seed, which hands
\* out `stream`; its assertions end the run.
seeding(r, data, p, stream) ==
    LET seeded == random_plusplus(data, get_k(p), stream)
    IN  IF seeded.failed
        THEN [r EXCEPT !.state = "PRECONDITION_FAILURE"]
        ELSE [r EXCEPT !.state = "ITERATING", !.seeds = seeded.means, !.means = seeded.means]

\* The convergence test, in its order of precedence.  The maximum is reached
\* when the count of completed iterations is at least the configured one.
convergence_test(p, old_means, means, count) ==
    IF has_min_delta(p) /\ deltas_below_limit(deltas(old_means, means), get_min_delta(p))
    THEN "CONVERGED"
    ELSE IF has_max_iteration(p) /\ count >= get_max_iteration(p)
    THEN "MAX_ITERATIONS_REACHED"
    ELSE "ITERATING"

\* ITERATING: assign, update, test.
iteration(r, data, p) ==
    LET clusters == calculate_clusters(data, r.means)
        means == calculate_means(data, clusters, r.means, get_k(p))
    IN  [r EXCEPT !.clusters = clusters,
                  !.old_means = r.means,
                  !.means = means,
                  !.count = r.count + 1,
                  !.state = convergence_test(p, r.means, means, r.count + 1)]

Terminal == {"CONVERGED", "MAX_ITERATIONS_REACHED"}

(***************************************************************************)
(* The inputs of the model.                                                *)
(***************************************************************************)
Points == {Pt(0, 0), Pt(1, 0), Pt(3, 1)}

Scenario == [n \in 1..Len(ScenarioRaw) |-> Pt(ScenarioRaw[n][1], ScenarioRaw[n][2])]

Datasets == UNION {[1..n -> Points] : n \in 0..MaxPoints} \cup {Scenario}

Ks == 0..MaxK

MaxIterations == 0..MaxIter

\* -1/2, 0 and 1/2 in program units.
MinDeltas == {-(Scale \div 2), 0, Scale \div 2}

SeedValues == {0, 1}

\* The model stops a run that no test stops after this many iterations.
IterationCap == MaxIter + 1

VARIABLES
    phase,       \* "config": the parameters are being set; "run": kmeans_lloyd
                 \* is running; "pure": a function of details:: is called
    parameters,  \* the clustering_parameters object
    calls,       \* per option, the value of the latest set_X call, or None
    data,        \* the dataset handed to kmeans_lloyd
    run,         \* the run of kmeans_lloyd
    run2,        \* a second run on the same dataset and parameters
    args,        \* the arguments of a call of a function of details::
    result       \* what that call returned

vars == <<phase, parameters, calls, data, run, run2, args, result>>

NoCall == [fn |-> "none"]

NoCalls == [max_iteration |-> None, min_delta |-> None, random_seed |-> None]

Init ==
    /\ phase = "config"
    /\ \E k \in Ks : parameters = clustering_parameters(k)
    /\ calls = NoCalls
    /\ data = <<>>
    /\ run = NotStarted
    /\ run2 = NotStarted
    /\ args = NoCall
    /\ result = NoCall

CallSetMaxIteration ==
    /\ phase = "config"
    /\ \E max_iter \in MaxIterations :
        /\ parameters' = set_max_iteration(parameters, max_iter)
        /\ calls' = [calls EXCEPT !.max_iteration = Some(max_iter)]
    /\ UNCHANGED <<phase, data, run, run2, args, result>>

CallSetMinDelta ==
    /\ phase = "config"
    /\ \E min_delta \in MinDeltas :
        /\ parameters' = set_min_delta(parameters, min_delta)
        /\ calls' = [calls EXCEPT !.min_delta = Some(min_delta)]
    /\ UNCHANGED <<phase, data, run, run2, args, result>>

CallSetRandomSeed ==
    /\ phase = "config"
    /\ \E rand_seed \in SeedValues :
        /\ parameters' = set_random_seed(parameters, rand_seed)
        /\ calls' = [calls EXCEPT !.random_seed = Some(rand_seed)]
    /\ UNCHANGED <<phase, data, run, run2, args, result>>

\* kmeans_lloyd(data, parameters) is entered.
Enter ==
    /\ phase = "config"
    /\ phase' = "run"
    /\ \E d \in Datasets : data' = d
    /\ UNCHANGED <<parameters, calls, run, run2, args, result>>

Seed ==
    /\ phase = "run"
    /\ run.state = "NOT_STARTED"
    /\ \E stream \in Streams(Len(data), get_k(parameters)) :
        run' = seeding(run, data, parameters, stream)
    /\ UNCHANGED <<phase, parameters, calls, data, run2, args, result>>

Iterate ==
    /\ phase = "run"
    /\ run.state = "ITERATING"
    /\ run.count < IterationCap
    /\ run' = iteration(run, data, parameters)
    /\ UNCHANGED <<phase, parameters, calls, data, run2, args, result>>

Next ==
    \/ CallSetMaxIteration
    \/ CallSetMinDelta
    \/ CallSetRandomSeed
    \/ Enter
    \/ Seed
    \/ Iterate

Spec == Init /\ [][Next]_vars


(***************************************************************************)
(* Two runs of kmeans_lloyd on the same dataset and the same parameters,   *)
(* side by side.  Each run takes its own seed; two engines seeded alike    *)
(* give the same stream.                                                   *)
(***************************************************************************)
\* What seeding makes of the runs r1 and r2 when both engines hand out the
\* same stream.
SeededAlike(r1, r2) ==
    {<<seeding(r1, data, parameters, stream), seeding(r2, data, parameters, stream)>> :
        stream \in Streams(Len(data), get_k(parameters))}

\* What it makes of them when each engine hands out its own stream.
SeededApart(alike) == {both[1] : both \in alike} \X {both[2] : both \in alike}

SeedBoth ==
    /\ phase = "run"
    /\ run.state = "NOT_STARTED"
    /\ \E alike \in {SeededAlike(run, run2)} :
       \E rd1 \in SeedValues, rd2 \in SeedValues :
       \E both \in IF choose_seed(parameters, rd1) = choose_seed(parameters, rd2)
                   THEN alike ELSE SeededApart(alike) :
            /\ run' = both[1]
            /\ run2' = both[2]
    /\ UNCHANGED <<phase, parameters, calls, data, args, result>>

Iterating(r) == r.state = "ITERATING" /\ r.count < IterationCap

IterateBoth ==
    /\ phase = "run"
    /\ Iterating(run) \/ Iterating(run2)
    /\ run' = IF Iterating(run) THEN iteration(run, data, parameters) ELSE run
    /\ run2' = IF Iterating(run2) THEN iteration(run2, data, parameters) ELSE run2
    /\ UNCHANGED <<phase, parameters, calls, data, args, result>>

NextTwoRuns ==
    \/ CallSetMaxIteration
    \/ CallSetMinDelta
    \/ CallSetRandomSeed
    \/ Enter
    \/ SeedBoth
    \/ IterateBoth

SpecTwoRuns == Init /\ [][NextTwoRuns]_vars

(***************************************************************************)
(* The functions of details:: called on their own.                         *)
(***************************************************************************)
QueryPoints == Points \cup {Pt(1, 1), Pt(2, 0)}

\* The sequences over S of length lo to hi.
SeqsOf(S, lo, hi) == UNION {[1..n -> S] : n \in lo..hi}

ClosestMeanCall(a) ==
    \E pt \in QueryPoints, ms \in SeqsOf(QueryPoints, 0, MaxK + 1) :
        a = [fn |-> "closest_mean", point |-> pt, means |-> ms]

CalculateMeansCall(a) ==
    \E k \in Ks, d \in Datasets :
        \E cl \in SeqsOf(0..(k - 1), 0, MaxPoints), om \in [1..k -> Points] :
            a = [fn |-> "calculate_means", data |-> d, clusters |-> cl,
                 old_means |-> om, k |-> k]

InitCall ==
    /\ phase = "pure"
    /\ parameters = clustering_parameters(0)
    /\ calls = NoCalls
    /\ data = <<>>
    /\ run = NotStarted
    /\ run2 = NotStarted
    /\ ClosestMeanCall(args) \/ CalculateMeansCall(args)
    /\ result = NoCall

CallClosestMean ==
    /\ phase = "pure"
    /\ args.fn = "closest_mean"
    /\ result.fn = "none"
    /\ result' = IF ~(args.means # <<>>)
                 THEN [fn |-> "closest_mean", failed |-> TRUE]
                 ELSE [fn |-> "closest_mean", failed |-> FALSE,
                       value |-> closest_mean(args.point, args.means)]
    /\ UNCHANGED <<phase, parameters, calls, data, run, run2, args>>

CallCalculateMeans ==
    /\ phase = "pure"
    /\ args.fn = "calculate_means"
    /\ result.fn = "none"
    /\ result' = [fn |-> "calculate_means",
                  value |-> calculate_means(args.data, args.clusters, args.old_means, args.k)]
    /\ UNCHANGED <<phase, parameters, calls, data, run, run2, args>>

NextCall ==
    \/ CallClosestMean
    \/ CallCalculateMeans

SpecCall == InitCall /\ [][NextCall]_vars


(***************************************************************************)
(* Properties.                                                             *)
(***************************************************************************)
Started(r) == r.state \in Terminal \cup {"ITERATING"}

\* The squared distance of two points, written out.
SqDist(a, b) == ((a[1] - b[1]) * (a[1] - b[1])) + ((a[2] - b[2]) * (a[2] - b[2]))

\* i is the lowest index of a mean of `means` nearest to `point`.
LowestNearest(i, point, means) ==
    /\ i \in 0..(Len(means) - 1)
    /\ \A j \in 0..(Len(means) - 1) : SqDist(point, At(means, i)) <= SqDist(point, At(means, j))
    /\ \A j \in 0..(i - 1) : SqDist(point, At(means, j)) > SqDist(point, At(means, i))

\* C1 as stated: with a maximum iteration count M configured (set_max_iteration
\* was called, last with M), a run never completes more than M iterations.
C1_AtMostMaxIterations ==
    \A M \in calls.max_iteration : run.count <= M

\* C1, amended: with a maximum iteration count M >= 1 configured, a run never
\* completes more than M iterations, and after its M-th iteration it has
\* stopped (converged or reached the maximum), whatever min_delta is.
C1_AtMostMaxIterationsFromOne ==
    \A M \in calls.max_iteration :
        M >= 1 => /\ run.count <= M
                  /\ run.count = M => run.state \in Terminal

C1_Witness ==
    /\ calls.max_iteration = Some(2)
    /\ calls.min_delta = Some(0)
    /\ run.count = 2
    /\ run.state = "MAX_ITERATIONS_REACHED"

\* C2: once a run has iterated, its assignment vector has one entry per
\* dataset point, every entry is an index in [0, k), and the n-th entry is
\* the index of a mean nearest to the n-th point among the means the
\* iteration started from; so for the vector a stopped run returns.
C2_AssignmentsValid ==
    (Started(run) /\ run.count > 0) =>
        /\ Len(run.clusters) = Len(data)
        /\ \A n \in 1..Len(data) :
            /\ run.clusters[n] \in 0..(get_k(parameters) - 1)
            /\ \A j \in 1..Len(run.old_means) :
                SqDist(data[n], At(run.old_means, run.clusters[n]))
                    <= SqDist(data[n], run.old_means[j])

C2_Witness ==
    /\ run.state \in Terminal
    /\ Len(data) = MaxPoints
    /\ get_k(parameters) = 2
    /\ {run.clusters[n] : n \in 1..Len(run.clusters)} = {0, 1}
    /\ C2_AssignmentsValid

\* Every mean moved by at most m between old_means and means.
AllMovedAtMost(r, m) ==
    /\ m >= 0
    /\ \A c \in 1..Len(r.means) : SqDist(r.old_means[c], r.means[c]) <= m * m

\* C3: a run that stopped on the minimum-delta test moved every mean by at
\* most min_delta in its last iteration; and a run with min_delta configured
\* that did not stop on that test after an iteration moved some mean further.
C3_ConvergedWithinMinDelta ==
    \A m \in calls.min_delta :
        /\ run.state = "CONVERGED" => AllMovedAtMost(run, m)
        /\ (run.state \in {"ITERATING", "MAX_ITERATIONS_REACHED"} /\ run.count > 0)
               => ~AllMovedAtMost(run, m)

C3_Witness ==
    /\ run.state = "CONVERGED"
    /\ get_k(parameters) = 2
    /\ run.means[1] # run.old_means[1]
    /\ run.means[2] = run.old_means[2]
    /\ \E m \in calls.min_delta : AllMovedAtMost(run, m)

\* C6: a run with k = 0 or an empty dataset goes from its start to a
\* precondition failure only: it never iterates and never holds a mean or an
\* assignment.
C6_PreconditionFailure ==
    (phase = "run" /\ (get_k(parameters) = 0 \/ Len(data) = 0)) =>
        /\ run.state \in {"NOT_STARTED", "PRECONDITION_FAILURE"}
        /\ run.means = <<>>
        /\ run.clusters = <<>>
        /\ run.count = 0

C6_Witness ==
    /\ run.state = "PRECONDITION_FAILURE"
    /\ Len(data) = 0
    /\ get_k(parameters) > 0

C6_WitnessZeroK ==
    /\ run.state = "PRECONDITION_FAILURE"
    /\ Len(data) > 0
    /\ get_k(parameters) = 0


\* The points of `d` labelled c by the assignment vector `cl`.
Labelled(d, cl, c) == {d[n] : n \in {i \in 1..Len(d) : cl[i] = c}}

\* Means `ms` and assignments `cl` split the scenario's dataset `d` in the
\* two groups `low` and `high` with centres `lowMean` and `highMean`.
SplitsAs(d, ms, cl, low, lowMean, high, highMean) ==
    /\ Len(cl) = Len(d)
    /\ \/ /\ ms = <<lowMean, highMean>>
          /\ Labelled(d, cl, 0) = low
          /\ Labelled(d, cl, 1) = high
       \/ /\ ms = <<highMean, lowMean>>
          /\ Labelled(d, cl, 0) = high
          /\ Labelled(d, cl, 1) = low

\* The scenario's expected result: means (0, 1/2) and (10, 1/2), the points
\* split by their x-coordinate.
SplitByX(r) ==
    SplitsAs(data, r.means, r.clusters,
             {Pt(0, 0), Pt(0, 1)}, <<0, Scale \div 2>>,
             {Pt(10, 0), Pt(10, 1)}, <<10 * Scale, Scale \div 2>>)

\* Means (5, 0) and (5, 1), the points split by their y-coordinate.
SplitByY(r) ==
    SplitsAs(data, r.means, r.clusters,
             {Pt(0, 0), Pt(10, 0)}, <<5 * Scale, 0>>,
             {Pt(0, 1), Pt(10, 1)}, <<5 * Scale, Scale>>)

ScenarioReturned ==
    /\ data = Scenario
    /\ get_k(parameters) = 2
    /\ run.state \in Terminal

\* C7 as stated: on the scenario's dataset with k = 2, whatever the seeding
\* draws, a run returns the means (0, 1/2) and (10, 1/2) in some order and
\* assignments that split the points by their x-coordinate.
C7_ScenarioSplitsByX == ScenarioReturned => SplitByX(run)

\* C7, amended: on the scenario's dataset with k = 2, a run whose two seeded
\* means differ in x returns the means (0, 1/2) and (10, 1/2) and the split
\* by x; a run whose two seeded means share x and differ in y returns the
\* means (5, 0) and (5, 1) and the split by y.
C7_ScenarioSplitFollowsSeeds ==
    ScenarioReturned =>
        /\ run.seeds[1][1] # run.seeds[2][1] => SplitByX(run)
        /\ (run.seeds[1][1] = run.seeds[2][1] /\ run.seeds[1][2] # run.seeds[2][2])
               => SplitByY(run)

C7_Witness ==
    /\ ScenarioReturned
    /\ run.seeds = <<Pt(10, 1), Pt(0, 1)>>
    /\ run.means = <<<<10 * Scale, Scale \div 2>>, <<0, Scale \div 2>>>>
    /\ run.clusters = <<1, 1, 0, 0>>

\* C10: a stopped run returns the assignments computed against the means
\* its last iteration started from; when no mean moved in that iteration,
\* every point is labelled with the lowest index of a returned mean nearest
\* to it.
C10_ReturnedAssignmentsNearest ==
    run.state \in Terminal =>
        /\ Len(run.clusters) = Len(data)
        /\ \A n \in 1..Len(data) : LowestNearest(run.clusters[n], data[n], run.old_means)
        /\ run.means = run.old_means =>
               \A n \in 1..Len(data) : LowestNearest(run.clusters[n], data[n], run.means)

C10_Witness ==
    /\ run.state = "CONVERGED"
    /\ calls.min_delta = Some(0)
    /\ run.count = 3
    /\ run.means = run.old_means
    /\ run.clusters = <<0, 0, 1>>
    /\ \A n \in 1..Len(data) : LowestNearest(run.clusters[n], data[n], run.means)

C5_UnseededRunsDiffer ==
    /\ calls.random_seed = None
    /\ run.state \in Terminal
    /\ run2.state \in Terminal
    /\ run.means # run2.means


\* C9: closest_mean(point, means) on a non-empty `means` returns the lowest
\* index among the means at the least squared distance from `point`.
C9_ClosestMeanLowestNearest ==
    (result.fn = "closest_mean" /\ ~result.failed) =>
        LowestNearest(result.value, args.point, args.means)

C9_Witness ==
    /\ result.fn = "closest_mean"
    /\ ~result.failed
    /\ Len(args.means) = 3
    /\ args.means[2] # args.means[3]
    /\ SqDist(args.point, args.means[2]) = SqDist(args.point, args.means[3])
    /\ SqDist(args.point, args.means[1]) > SqDist(args.point, args.means[2])
    /\ result.value = 1

\* The indices i, from 1, that data and clusters both have and clusters labels c.
Members(d, cl, c) == {i \in 1..Min(Len(cl), Len(d)) : cl[i] = c}

RECURSIVE SumOf(_, _, _)
SumOf(d, S, j) ==
    IF S = {} THEN 0
    ELSE LET i == CHOOSE x \in S : TRUE IN d[i][j] + SumOf(d, S \ {i}, j)

\* C4: calculate_means(data, clusters, old_means, k) returns k means; the
\* mean of a cluster c with points is, in every coordinate, the sum of the
\* points labelled c divided by their number, and the mean of a cluster
\* without points is old_means[c].
C4_MeansAreAverages ==
    result.fn = "calculate_means" =>
        /\ Len(result.value) = args.k
        /\ \A c \in 0..(args.k - 1) :
            LET S == Members(args.data, args.clusters, c)
            IN  IF S = {} THEN At(result.value, c) = At(args.old_means, c)
                ELSE \A j \in Dim :
                        At(result.value, c)[j] * Cardinality(S) = SumOf(args.data, S, j)

C4_Witness ==
    /\ result.fn = "calculate_means"
    /\ args.k = 2
    /\ args.data = <<Pt(0, 0), Pt(1, 0), Pt(3, 1)>>
    /\ args.clusters = <<1, 1, 1>>
    /\ args.old_means = <<Pt(3, 1), Pt(0, 0)>>
    /\ result.value = <<Pt(3, 1), <<(4 * Scale) \div 3, Scale \div 3>>>>

\* What the object's accessors say is what the calls so far set.
OptionTracksCalls(has, get, called) ==
    /\ has = (called # None)
    /\ \A v \in called : get = v

ParametersTrackCalls ==
    /\ OptionTracksCalls(has_max_iteration(parameters), get_max_iteration(parameters),
                         calls.max_iteration)
    /\ OptionTracksCalls(has_min_delta(parameters), get_min_delta(parameters),
                         calls.min_delta)
    /\ OptionTracksCalls(has_random_seed(parameters), get_random_seed(parameters),
                         calls.random_seed)

MaxIterationKept ==
    /\ has_max_iteration(parameters)' = has_max_iteration(parameters)
    /\ get_max_iteration(parameters)' = get_max_iteration(parameters)

MinDeltaKept ==
    /\ has_min_delta(parameters)' = has_min_delta(parameters)
    /\ get_min_delta(parameters)' = get_min_delta(parameters)

RandomSeedKept ==
    /\ has_random_seed(parameters)' = has_random_seed(parameters)
    /\ get_random_seed(parameters)' = get_random_seed(parameters)

\* A step that is a set_X call keeps k and the two other options.
SettersKeepTheRest ==
    /\ get_k(parameters)' = get_k(parameters)
    /\ calls.max_iteration' # calls.max_iteration => (MinDeltaKept /\ RandomSeedKept)
    /\ calls.min_delta' # calls.min_delta => (MaxIterationKept /\ RandomSeedKept)
    /\ calls.random_seed' # calls.random_seed => (MaxIterationKept /\ MinDeltaKept)

\* C8: after any sequence of set_max_iteration, set_min_delta and
\* set_random_seed calls, has_X() is true exactly when set_X was called, a
\* zero value included, get_X() is the value of the latest set_X call, and
\* every set_X call leaves k and the two other options as they were.
C8_SettersIndependent == []ParametersTrackCalls /\ [][SettersKeepTheRest]_vars

C8_Witness ==
    /\ phase = "config"
    /\ calls = [max_iteration |-> Some(0), min_delta |-> None, random_seed |-> Some(1)]
    /\ has_max_iteration(parameters)
    /\ get_max_iteration(parameters) = 0
    /\ ~has_min_delta(parameters)
    /\ has_random_seed(parameters)
    /\ get_random_seed(parameters) = 1
    /\ get_k(parameters) = 2

=============================================================================
